---- MODULE Spec2Model ----
(***************************************************************************)
(* Model of the Campaign Caller dashboard (src/Steamlit_API.py): the JSON  *)
(* call-log store (save_log / load_logs), the session gate (login, logout),*)
(* the start-call handler and the transcript pipeline (fetch, QA           *)
(* evaluation, workbook export).  Every script run of a session is one     *)
(* handler; save_log is split at its file-system calls so that runs of     *)
(* different sessions interleave as the operating system lets them.        *)
(* Spec is one session with every handler; SpecRace is two sessions over   *)
(* the handlers that touch the log file.                                   *)
(***************************************************************************)
EXTENDS Integers, Sequences, FiniteSets, TLC

VARIABLES file, user, pc, loc, out, clock, lastWriter

vars == <<file, user, pc, loc, out, clock, lastWriter>>

(* ------------------------------ bounds --------------------------------- *)

\* number of calls the gateway starts over a behaviour (so the log stays
\* finite); clock counts the readings of datetime.utcnow()
MaxCalls == 2

\* the browser sessions of the server
Sessions == {1, 2}

(* ------------------------------ values --------------------------------- *)

\* Python None
Null == "<None>"

IsPrefix(a, b) == Len(a) <= Len(b) /\ SubSeq(b, 1, Len(a)) = a

Range(q) == {q[i] : i \in 1..Len(q)}

(* ----------------------------- JSON text ------------------------------- *)
\* The text of the log file is a sequence of tokens: "[" and "]" and one
\* token per serialised object.

NoEntry == [time |-> 0, call_id |-> Null, number |-> ""]

LBracket == [tok |-> "[", val |-> NoEntry]

RBracket == [tok |-> "]", val |-> NoEntry]

ObjToken(e) == [tok |-> "{}", val |-> e]

\* json.dump(logs, f, indent=2): the text written for a list of entries
json_dump(logs) ==
    <<LBracket>> \o [i \in 1..Len(logs) |-> ObjToken(logs[i])] \o <<RBracket>>

\* the text is one JSON array of objects and nothing else
IsJsonArray(text) ==
    /\ Len(text) >= 2
    /\ text[1] = LBracket
    /\ text[Len(text)] = RBracket
    /\ \A i \in 2..(Len(text) - 1) : text[i].tok = "{}"

\* json.load(open(LOG_FILE)): the value, or the exception it raises
json_load(f) ==
    IF ~f.exists
      THEN [exc |-> "FileNotFoundError", value |-> <<>>]
      ELSE IF IsJsonArray(f.text)
        THEN [exc |-> "none",
              value |-> [i \in 1..(Len(f.text) - 2) |-> f.text[i + 1].val]]
        ELSE [exc |-> "JSONDecodeError", value |-> <<>>]

\* open(LOG_FILE, "w"): the file exists and is empty
open_w(f) == [exists |-> TRUE, text |-> <<>>]

\* the buffered text reaches the file at offset 0 when the with-block closes
\* it; bytes another writer left beyond it stay
write_close(f, text) ==
    [exists |-> TRUE,
     text |-> text \o SubSeq(f.text, Len(text) + 1, Len(f.text))]

(* ------------------------------ log store ------------------------------ *)

\* load_logs without its except clause
load_logs_no_except(f) == json_load(f)

\* load_logs(): a bare except turns every failure into []
load_logs(f) ==
    LET r == json_load(f)
    IN  IF r.exc = "none"
          THEN [exc |-> "none", value |-> r.value]
          ELSE [exc |-> "none", value |-> <<>>]

\* save_log, lines 43-47: only FileNotFoundError is caught
save_log_read(f) ==
    LET r == json_load(f)
    IN  IF r.exc = "FileNotFoundError"
          THEN [exc |-> "none", value |-> <<>>]
          ELSE r

\* logs.insert(0, entry) in place of logs.append(entry)
save_log_prepend(logs, entry) == <<entry>> \o logs

\* save_log, line 48
save_log_append(logs, entry) == Append(logs, entry)

(* ------------------------------- session ------------------------------- *)

GmailSuffix == <<"@", "g", "m", "a", "i", "l", ".", "c", "o", "m">>

\* str.endswith
endswith(s, suffix) ==
    /\ Len(s) >= Len(suffix)
    /\ SubSeq(s, Len(s) - Len(suffix) + 1, Len(s)) = suffix

\* what a visitor types in the login box
Emails ==
    { <<>>,
      <<"a">> \o GmailSuffix,
      <<"a">> \o GmailSuffix \o <<"x">>,
      <<"g", "m", "a", "i", "l", ".", "c", "o", "m">> }

\* line 78 without the test of the suffix
valid_email_nonempty(email) == email # <<>>

\* line 78
valid_email(email) == email # <<>> /\ endswith(email, GmailSuffix)

\* "user" in st.session_state
Authenticated(s) == user[s] # <<>>

\* the script runs to its end before the session's next run starts
Idle(s) == pc[s] = "idle"

(* ------------------------------ run output ----------------------------- *)

NoParsed == [kind |-> "list", items |-> <<>>]

NoOut ==
    [kind |-> "none", as |-> <<>>, exc |-> "none", where |-> "none",
     msgs |-> {}, email |-> <<>>, number |-> "", status |-> "none",
     resp |-> <<>>, id |-> Null,
     entry |-> <<>>, before |-> <<>>, shown |-> <<>>,
     requests |-> 0, details |-> <<>>, sentiment |-> FALSE, qa_called |-> FALSE,
     rendered |-> 0, parsed |-> NoParsed, qa_exc |-> "none",
     export |-> <<>>, workbook |-> <<>>]

\* the record of a run that starts now
Begin(s, kind) ==
    [NoOut EXCEPT !.kind = kind, !.as = user[s],
                  !.before = load_logs(file).value]

NoLoc == [logs |-> <<>>, entry |-> NoEntry]

(* -------------------------------- Init --------------------------------- *)

\* the log file when the server starts: absent, an empty array, or a file a
\* killed writer left truncated
InitFiles ==
    { [exists |-> FALSE, text |-> <<>>],
      [exists |-> TRUE, text |-> json_dump(<<>>)],
      [exists |-> TRUE, text |-> <<LBracket>>] }

Init ==
    /\ file \in InitFiles
    /\ user = [s \in Sessions |-> <<>>]
    /\ pc = [s \in Sessions |-> "idle"]
    /\ loc = [s \in Sessions |-> NoLoc]
    /\ out = [s \in Sessions |-> NoOut]
    /\ clock = 0
    /\ lastWriter = 0

(* ---------------------------- login / logout --------------------------- *)

\* login(), lines 74-82, reached when the session has no user
Login(s, email) ==
    /\ Idle(s)
    /\ ~Authenticated(s)
    /\ IF valid_email(email)
         THEN /\ user' = [user EXCEPT ![s] = email]
              /\ out' = [out EXCEPT ![s] =
                            [Begin(s, "login") EXCEPT !.email = <<email>>]]
         ELSE /\ user' = user
              /\ out' = [out EXCEPT ![s] =
                            [Begin(s, "login") EXCEPT
                               !.email = <<email>>,
                               !.msgs = {"Please use a valid Gmail address"}]]
    /\ UNCHANGED <<file, pc, loc, clock, lastWriter>>

\* app_main, lines 87-89: del st.session_state.user; st.rerun()
Logout(s) ==
    /\ Idle(s)
    /\ Authenticated(s)
    /\ user' = [user EXCEPT ![s] = <<>>]
    /\ out' = [out EXCEPT ![s] = Begin(s, "logout")]
    /\ UNCHANGED <<file, pc, loc, clock, lastWriter>>

(* ------------------------------ start call ----------------------------- *)

\* the number typed in the form (the code sends whatever is typed)
Numbers == {"+15551234567"}

\* what requests.post gives back: a connection error, or a status and a body
StartResponses ==
    { [status |-> "ok", body |-> "dict", id |-> "abc123"],
      [status |-> "ok", body |-> "dict", id |-> Null],
      [status |-> "ok", body |-> "list", id |-> Null],
      [status |-> "ok", body |-> "garbage", id |-> Null],
      [status |-> "fail", body |-> "garbage", id |-> Null],
      [status |-> "raise", body |-> "garbage", id |-> Null] }

\* lines 97-114 up to the call of save_log
StartCall(s, number, resp) ==
    /\ Idle(s)
    /\ Authenticated(s)
    /\ clock < MaxCalls
    /\ LET b == [Begin(s, "start") EXCEPT !.number = number,
                                           !.resp = <<resp>>] IN
       CASE resp.status = "raise" ->
              /\ out' = [out EXCEPT ![s] =
                   [b EXCEPT !.exc = "ConnectionError", !.where = "requests.post"]]
              /\ UNCHANGED <<pc, loc, clock>>
         [] resp.status = "fail" ->
              /\ out' = [out EXCEPT ![s] =
                   [b EXCEPT !.status = "fail",
                             !.msgs = {"Error: Unable to start call."}]]
              /\ pc' = [pc EXCEPT ![s] = "show"]
              /\ UNCHANGED <<loc, clock>>
         [] resp.status = "ok" /\ resp.body = "garbage" ->
              /\ out' = [out EXCEPT ![s] =
                   [b EXCEPT !.status = "ok", !.exc = "JSONDecodeError",
                             !.where = "resp.json"]]
              /\ UNCHANGED <<pc, loc, clock>>
         [] resp.status = "ok" /\ resp.body = "list" ->
              /\ out' = [out EXCEPT ![s] =
                   [b EXCEPT !.status = "ok", !.exc = "AttributeError",
                             !.where = "data.get", !.msgs = {"Call initiated!"}]]
              /\ UNCHANGED <<pc, loc, clock>>
         [] resp.status = "ok" /\ resp.body = "dict" ->
              LET e == [time |-> clock + 1, call_id |-> resp.id, number |-> number]
              IN  /\ out' = [out EXCEPT ![s] =
                       [b EXCEPT !.status = "ok", !.id = resp.id,
                                 !.msgs = {"Call initiated!"}, !.entry = <<e>>]]
                  /\ loc' = [loc EXCEPT ![s] = [logs |-> <<>>, entry |-> e]]
                  /\ clock' = clock + 1
                  /\ pc' = [pc EXCEPT ![s] = "save_read"]
    /\ UNCHANGED <<file, user, lastWriter>>

\* save_log, lines 43-48
SaveRead(s) ==
    /\ pc[s] = "save_read"
    /\ LET r == save_log_read(file) IN
       IF r.exc = "none"
         THEN /\ loc' = [loc EXCEPT ![s].logs =
                            save_log_append(r.value, loc[s].entry)]
              /\ pc' = [pc EXCEPT ![s] = "save_open"]
              /\ out' = out
         ELSE /\ out' = [out EXCEPT ![s].exc = r.exc, ![s].where = "save_log"]
              /\ pc' = [pc EXCEPT ![s] = "idle"]
              /\ loc' = [loc EXCEPT ![s] = NoLoc]
    /\ UNCHANGED <<file, user, clock, lastWriter>>

\* save_log, line 49
SaveOpen(s) ==
    /\ pc[s] = "save_open"
    /\ file' = open_w(file)
    /\ pc' = [pc EXCEPT ![s] = "save_dump"]
    /\ UNCHANGED <<user, loc, out, clock, lastWriter>>

\* save_log, line 50 and the end of the with-block
SaveDump(s) ==
    /\ pc[s] = "save_dump"
    /\ file' = write_close(file, json_dump(loc[s].logs))
    /\ lastWriter' = s
    /\ pc' = [pc EXCEPT ![s] = "show"]
    /\ UNCHANGED <<user, loc, out, clock>>

(* --------------------------- call gateway: fetch ------------------------ *)

\* a key the dict does not hold
Missing == "<missing>"

\* the value of details['analysis']['structuredData']: None, {} or a mapping
NoStructured == [kind |-> "none", fields |-> {}]

Structured(fields) == [kind |-> "map", fields |-> fields]

\* JSON values a GET /call/{id} body can decode to
DetailsValues ==
    { [type |-> "list", nonempty |-> TRUE, transcript |-> Missing,
       analysis |-> "absent"],
      [type |-> "dict", nonempty |-> FALSE, transcript |-> Missing,
       analysis |-> "absent"] }
    \cup
    { [type |-> "dict", nonempty |-> TRUE, transcript |-> t, analysis |-> a] :
         t \in {Missing, "Hello, this is..."},
         a \in {"absent", "null", "no_structured", "empty_structured",
                "structured"} }

\* a body with neither transcript nor analysis
ADetails ==
    [type |-> "dict", nonempty |-> TRUE, transcript |-> Missing,
     analysis |-> "absent"]

\* what requests.get gives back: a timeout, or a status with a body;
\* json and text hold what resp.json() and json.loads(resp.text) decode
FetchResponses ==
    { [status |-> "raise", json |-> <<>>, text |-> <<>>],
      [status |-> "fail", json |-> <<>>, text |-> <<>>],
      [status |-> "fail", json |-> <<ADetails>>, text |-> <<ADetails>>],
      [status |-> "ok", json |-> <<>>, text |-> <<>>],
      [status |-> "ok", json |-> <<>>, text |-> <<ADetails>>] }
    \cup
    { [status |-> "ok", json |-> <<d>>, text |-> <<d>>] : d \in DetailsValues }

\* fetch_call_details without the test of resp.ok
fetch_call_details_any_status(resp) ==
    IF resp.status = "raise"
      THEN [exc |-> "Timeout", requests |-> 1, details |-> <<>>, msgs |-> {}]
      ELSE IF resp.json # <<>>
        THEN [exc |-> "none", requests |-> 1, details |-> resp.json, msgs |-> {}]
        ELSE [exc |-> "none", requests |-> 1, details |-> <<>>,
              msgs |-> {"Could not parse API response as JSON."}]

\* fetch_call_details, lines 58-71 (resp is what the one requests.get gave)
fetch_call_details(resp) ==
    IF resp.status = "raise"
      THEN [exc |-> "Timeout", requests |-> 1, details |-> <<>>, msgs |-> {}]
      ELSE IF resp.status = "ok"
        THEN IF resp.json # <<>>
               THEN [exc |-> "none", requests |-> 1, details |-> resp.json,
                     msgs |-> {}]
               ELSE IF resp.text # <<>>
                 THEN [exc |-> "none", requests |-> 1, details |-> resp.text,
                       msgs |-> {}]
                 ELSE [exc |-> "none", requests |-> 1, details |-> <<>>,
                       msgs |-> {"Could not parse API response as JSON."}]
        ELSE [exc |-> "none", requests |-> 1, details |-> <<>>,
              msgs |-> {"Failed to fetch call details."}]

\* line 124: details and isinstance(details, dict)
usable_details(details) ==
    /\ details # <<>>
    /\ details[1].type = "dict"
    /\ details[1].nonempty

(* ----------------------------- QA evaluation --------------------------- *)

\* number of items in a reply of the language model
MaxItems == 2

\* the objects a reply can hold: rated, not applicable, without its
\* explanation, rated outside the scale
QAItems ==
    { [question |-> "Q1", rating |-> "4", explanation |-> "clear"],
      [question |-> "Q2", rating |-> "N/A", explanation |-> "not asked"],
      [question |-> "Q3", rating |-> "5", explanation |-> Missing],
      [question |-> "Q4", rating |-> "7", explanation |-> "great"] }

SeqsUpTo(S, n) == UNION { [1..k -> S] : k \in 0..n }

\* what the chat completion gives back: an API error, or the text of the
\* reply, which is no JSON, a JSON list of objects, or a JSON object
Replies ==
    { [kind |-> "api_error", items |-> <<>>],
      [kind |-> "garbage", items |-> <<>>],
      [kind |-> "object", items |-> <<>>] }
    \cup { [kind |-> "list", items |-> q] : q \in SeqsUpTo(QAItems, MaxItems) }

\* str(rating).isdigit() and int(rating), for the ratings of QAItems
RatingValue(r) ==
    CASE r = "0" -> 0 [] r = "1" -> 1 [] r = "2" -> 2 [] r = "3" -> 3
      [] r = "4" -> 4 [] r = "5" -> 5 [] r = "6" -> 6 [] r = "7" -> 7
      [] r = "8" -> 8 [] r = "9" -> 9 [] OTHER -> -1

\* lines 171-185 for one item: the exception the rendering raises, if any
\* (a missing key; st.progress outside [0.0, 1.0])
render_item(item) ==
    IF item.question = Missing \/ item.rating = Missing
       \/ item.explanation = Missing
      THEN "KeyError"
      ELSE IF RatingValue(item.rating) > 5
        THEN "StreamlitAPIException"
        ELSE "none"

\* the items rendered before the loop of line 170 ends or raises
RECURSIVE rendered_before(_, _)
rendered_before(items, i) ==
    IF i > Len(items) THEN Len(items)
    ELSE IF render_item(items[i]) # "none" THEN i - 1
    ELSE rendered_before(items, i + 1)

\* lines 154-198: parsed is bound at line 164, before the items are rendered
qa_evaluate(reply) ==
    CASE reply.kind = "api_error" ->
           [parsed |-> NoParsed, exc |-> "APIError", rendered |-> 0]
      [] reply.kind = "garbage" ->
           [parsed |-> NoParsed, exc |-> "JSONDecodeError", rendered |-> 0]
      [] reply.kind = "object" ->
           [parsed |-> [kind |-> "object", items |-> <<>>], exc |-> "TypeError",
            rendered |-> 0]
      [] reply.kind = "list" ->
           LET n == rendered_before(reply.items, 1)
           IN  [parsed |-> [kind |-> "list", items |-> reply.items],
                exc |-> IF n = Len(reply.items) THEN "none"
                        ELSE render_item(reply.items[n + 1]),
                rendered |-> n]

(* ------------------------------- export -------------------------------- *)

\* line 204: details.get('analysis', {}).get('structuredData')
structured_of(d) ==
    CASE d.analysis = "null" -> [exc |-> "AttributeError", value |-> NoStructured]
      [] d.analysis = "empty_structured" ->
           [exc |-> "none", value |-> Structured({})]
      [] d.analysis = "structured" ->
           [exc |-> "none", value |-> Structured({"outcome"})]
      [] OTHER -> [exc |-> "none", value |-> NoStructured]

\* truth value of the structured data and of parsed (lines 205, 207)
truthy_structured(st) == st.kind = "map" /\ st.fields # {}

truthy_parsed(p) == p.kind = "object" \/ p.items # <<>>

PlaceholderRow ==
    [question |-> "N/A", rating |-> "N/A",
     explanation |-> "No evaluation performed"]

\* lines 205-212 with pd.DataFrame(parsed) on every parsed
build_workbook_no_placeholder(st, p) ==
    IF ~truthy_structured(st)
      THEN [exc |-> "none", workbook |-> <<>>]
      ELSE IF p.kind = "object"
        THEN [exc |-> "ValueError", workbook |-> <<>>]
        ELSE [exc |-> "none",
              workbook |-> << [sheets |-> <<"CallData", "QA Evaluation">>,
                               CallData |-> <<st>>, QA |-> p.items] >>]

\* lines 205-212: no workbook without structured data; pd.DataFrame of a
\* JSON object of scalars raises
build_workbook(st, p) ==
    IF ~truthy_structured(st)
      THEN [exc |-> "none", workbook |-> <<>>]
      ELSE IF truthy_parsed(p) /\ p.kind = "object"
        THEN [exc |-> "ValueError", workbook |-> <<>>]
        ELSE [exc |-> "none",
              workbook |-> << [sheets |-> <<"CallData", "QA Evaluation">>,
                               CallData |-> <<st>>,
                               QA |-> IF truthy_parsed(p) THEN p.items
                                      ELSE <<PlaceholderRow>>] >>]

(* --------------------------- fetch transcript -------------------------- *)

\* lines 121-124 and 221-222: the request and the test of what it returned
FetchDetails(s, resp) ==
    /\ Idle(s)
    /\ Authenticated(s)
    /\ LET f == fetch_call_details(resp)
           b == [Begin(s, "fetch") EXCEPT !.resp = <<resp>>,
                                          !.status = resp.status,
                                          !.requests = f.requests,
                                          !.details = f.details, !.msgs = f.msgs]
       IN
       IF f.exc # "none"
         THEN /\ out' = [out EXCEPT ![s] =
                   [b EXCEPT !.exc = f.exc, !.where = "requests.get"]]
              /\ pc' = pc
         ELSE IF ~usable_details(f.details)
           THEN /\ out' = [out EXCEPT ![s] =
                     [b EXCEPT !.msgs = @ \cup
                        {"Could not fetch details or invalid response."}]]
                /\ pc' = [pc EXCEPT ![s] = "show"]
           ELSE /\ out' = [out EXCEPT ![s] = b]
                /\ pc' = [pc EXCEPT ![s] = "analyze"]
    /\ UNCHANGED <<file, user, loc, clock, lastWriter>>

\* lines 125-198: a transcript is analysed and sent to the language model
Analyze(s, reply) ==
    /\ pc[s] = "analyze"
    /\ out[s].details[1].transcript # Missing
    /\ LET q == qa_evaluate(reply) IN
       out' = [out EXCEPT ![s].sentiment = TRUE, ![s].qa_called = TRUE,
                          ![s].parsed = q.parsed, ![s].rendered = q.rendered,
                          ![s].qa_exc = q.exc,
                          ![s].msgs = IF q.exc # "none"
                                        THEN @ \cup {"LLaMA evaluation failed."}
                                        ELSE @]
    /\ pc' = [pc EXCEPT ![s] = "export"]
    /\ UNCHANGED <<file, user, loc, clock, lastWriter>>

\* lines 200-201
NoTranscript(s) ==
    /\ pc[s] = "analyze"
    /\ out[s].details[1].transcript = Missing
    /\ out' = [out EXCEPT ![s].msgs =
                  @ \cup {"No transcript available for this call."}]
    /\ pc' = [pc EXCEPT ![s] = "export"]
    /\ UNCHANGED <<file, user, loc, clock, lastWriter>>

\* lines 203-220
Export(s) ==
    /\ pc[s] = "export"
    /\ LET sd == structured_of(out[s].details[1])
           w == build_workbook(sd.value, out[s].parsed)
       IN
       IF sd.exc # "none"
         THEN /\ out' = [out EXCEPT ![s].exc = sd.exc, ![s].where = "details.get"]
              /\ pc' = [pc EXCEPT ![s] = "idle"]
         ELSE IF w.exc # "none"
           THEN /\ out' = [out EXCEPT ![s].export = <<sd.value>>,
                                      ![s].exc = w.exc,
                                      ![s].where = "pd.DataFrame"]
                /\ pc' = [pc EXCEPT ![s] = "idle"]
           ELSE /\ out' = [out EXCEPT ![s].export = <<sd.value>>,
                                      ![s].workbook = w.workbook]
                /\ pc' = [pc EXCEPT ![s] = "show"]
    /\ UNCHANGED <<file, user, loc, clock, lastWriter>>

(* ------------------------------ log display ---------------------------- *)

\* a run in which no button is pressed
View(s) ==
    /\ Idle(s)
    /\ Authenticated(s)
    /\ out' = [out EXCEPT ![s] = Begin(s, "view")]
    /\ pc' = [pc EXCEPT ![s] = "show"]
    /\ UNCHANGED <<file, user, loc, clock, lastWriter>>

\* lines 224-231, the end of every run of app_main that did not raise
Show(s) ==
    /\ pc[s] = "show"
    /\ LET logs == load_logs(file).value IN
       out' = [out EXCEPT ![s].shown = <<logs>>,
                          ![s].msgs = IF logs = <<>>
                                        THEN @ \cup {"No calls logged yet."}
                                        ELSE @]
    /\ pc' = [pc EXCEPT ![s] = "idle"]
    /\ loc' = [loc EXCEPT ![s] = NoLoc]
    /\ UNCHANGED <<file, user, clock, lastWriter>>

(* ----------------------------- specifications -------------------------- *)

Next ==
    \E s \in {1} :
        \/ \E email \in Emails : Login(s, email)
        \/ Logout(s)
        \/ \E number \in Numbers, resp \in StartResponses : StartCall(s, number, resp)
        \/ SaveRead(s)
        \/ SaveOpen(s)
        \/ SaveDump(s)
        \/ \E resp \in FetchResponses : FetchDetails(s, resp)
        \/ \E reply \in Replies : Analyze(s, reply)
        \/ NoTranscript(s)
        \/ Export(s)
        \/ View(s)
        \/ Show(s)

\* one session: every run of the script
Spec == Init /\ [][Next]_vars

\* the sessions of the server side by side, over the log store
NextRace ==
    \E s \in Sessions :
        \/ \E email \in Emails : Login(s, email)
        \/ Logout(s)
        \/ \E number \in Numbers, resp \in StartResponses : StartCall(s, number, resp)
        \/ SaveRead(s)
        \/ SaveOpen(s)
        \/ SaveDump(s)
        \/ View(s)
        \/ Show(s)

SpecRace == Init /\ [][NextRace]_vars

(* -------------------------------- claims ------------------------------- *)

\* what load_logs returns for the file as it is now
Persisted == load_logs(file).value

\* the gateway answered the POST with a status and, on success, a JSON object
Answered(o) ==
    /\ o.resp # <<>>
    /\ \/ o.resp[1].status = "fail"
       \/ o.resp[1].status = "ok" /\ o.resp[1].body = "dict"

\* C1: a start-call run with a non-empty number that the gateway answered
\* ends either with a success status and exactly one entry {time, the id the
\* gateway returned, the submitted number} appended to the log, or with a
\* non-success status, the error message and the log unchanged.
C1_StartCallOutcome ==
    \A s \in Sessions :
        (Idle(s) /\ out[s].kind = "start" /\ out[s].number # ""
           /\ Answered(out[s]))
        => LET o == out[s]
               now == Persisted
           IN  \/ /\ o.resp[1].status = "ok"
                  /\ Len(now) = Len(o.before) + 1
                  /\ IsPrefix(o.before, now)
                  /\ now[Len(now)].call_id = o.resp[1].id
                  /\ now[Len(now)].number = o.number
               \/ /\ o.resp[1].status = "fail"
                  /\ "Error: Unable to start call." \in o.msgs
                  /\ now = o.before

\* C2: load_logs never raises; it returns a sequence, which is empty when the
\* file is missing or unparsable and is the persisted sequence (the one whose
\* dump is the text of the file) otherwise.
C2_LoadNeverRaises ==
    LET r == load_logs(file)
    IN  /\ r.exc = "none"
        /\ DOMAIN r.value = 1..Len(r.value)
        /\ (~file.exists \/ ~IsJsonArray(file.text)) => r.value = <<>>
        /\ (file.exists /\ IsJsonArray(file.text)) => json_dump(r.value) = file.text
        /\ \A s \in Sessions :
              (out[s].shown # <<>> /\ out[s].exc = "none")
              => DOMAIN out[s].shown[1] = 1..Len(out[s].shown[1])

\* a run displayed an empty log read from a file that exists and does not parse
C2_Witness ==
    /\ file.exists
    /\ ~IsJsonArray(file.text)
    /\ \E s \in Sessions : Idle(s) /\ out[s].kind = "view" /\ out[s].shown = << <<>> >>

\* C3: after save_log(e), load_logs returns a sequence one longer than before
\* whose last element is e.
C3_RoundTrip ==
    \A s \in Sessions :
        (Idle(s) /\ out[s].kind = "start" /\ out[s].entry # <<>>)
        => /\ Len(Persisted) = Len(out[s].before) + 1
           /\ Persisted[Len(Persisted)] = out[s].entry[1]

\* C4: no operation of the log store raises to its caller, and save_log on an
\* unparsable store completes and leaves a store that holds the entry.
C4_StoreErrorsRecovered ==
    \A s \in Sessions :
        /\ out[s].where # "save_log"
        /\ (Idle(s) /\ out[s].kind = "start" /\ out[s].entry # <<>>
              /\ out[s].before = <<>>)
           => Persisted = out[s].entry

\* C5: over the runs of one session the log before a run is a prefix of the
\* log after it; it grows by exactly one entry on a call the gateway started
\* and by none on every other run.
C5_AppendOnly ==
    \A s \in Sessions :
        (Idle(s) /\ out[s].kind # "none")
        => /\ IsPrefix(out[s].before, Persisted)
           /\ IF out[s].kind = "start" /\ Answered(out[s])
                 /\ out[s].resp[1].status = "ok"
                THEN Len(Persisted) = Len(out[s].before) + 1
                ELSE Persisted = out[s].before

\* C6: the last writer wins: while the file parses and session s closed it
\* last, the log is the list s read with its entry appended, whatever other
\* sessions appended meanwhile.
C6_LastWriterWins ==
    \A s \in Sessions :
        (/\ lastWriter = s
         /\ file.exists /\ IsJsonArray(file.text)
         /\ out[s].kind = "start" /\ out[s].entry # <<>> /\ out[s].exc = "none"
         /\ pc[s] \in {"show", "idle"})
        => /\ Len(Persisted) >= 1
           /\ Persisted[Len(Persisted)] = out[s].entry[1]
           /\ pc[s] = "show" => Persisted = loc[s].logs

\* both sessions completed an append without error and the log holds the
\* entry of one of them only
C6_Witness ==
    \E s, t \in Sessions :
        /\ s # t
        /\ Idle(s) /\ Idle(t)
        /\ out[s].kind = "start" /\ out[t].kind = "start"
        /\ out[s].exc = "none" /\ out[t].exc = "none"
        /\ out[s].entry # <<>> /\ out[t].entry # <<>>
        /\ out[s].shown # <<>> /\ out[t].shown # <<>>
        /\ file.exists /\ IsJsonArray(file.text)
        /\ out[s].entry[1] \in Range(Persisted)
        /\ out[t].entry[1] \notin Range(Persisted)

\* C7: when the QA evaluation of a fetch run is reported as failed, the rest
\* of the run goes on without QA results: the export is not stopped by what
\* the evaluation left, and a workbook built in the run carries the one
\* placeholder row and no item of the failed evaluation.
C7_QAFailureKeepsNothing ==
    \A s \in Sessions :
        (out[s].kind = "fetch" /\ out[s].qa_exc # "none")
        => /\ "LLaMA evaluation failed." \in out[s].msgs
           /\ out[s].where # "pd.DataFrame"
           /\ out[s].workbook # <<>>
                => out[s].workbook[1].QA = <<PlaceholderRow>>

\* the run reached the export with a QA result that is a sequence
Exported(s) ==
    /\ out[s].kind = "fetch"
    /\ out[s].export # <<>>
    /\ out[s].parsed.kind = "list"

\* the workbook of lines 206-212 for these inputs
TwoSheets(w, st, p) ==
    /\ w.sheets = <<"CallData", "QA Evaluation">>
    /\ w.CallData = <<st>>
    /\ w.QA = IF p.items = <<>> THEN <<PlaceholderRow>> ELSE p.items

RanPipeline(s) ==
    \/ out[s].sentiment
    \/ out[s].qa_called
    \/ out[s].export # <<>>
    \/ out[s].workbook # <<>>
    \/ pc[s] \in {"analyze", "export"}

\* C9: a fetch makes one request; details are returned only for a success
\* status with a body that parses; a non-success status and an unparsable
\* body each give their error message, no details and no analysis or export.
C9_FetchSingleAttempt ==
    \A s \in Sessions :
        out[s].kind = "fetch"
        => LET o == out[s]
               r == out[s].resp[1]
           IN  /\ o.requests = 1
               /\ o.details # <<>>
                    => r.status = "ok" /\ (r.json # <<>> \/ r.text # <<>>)
               /\ r.status = "fail"
                    => /\ o.details = <<>>
                       /\ "Failed to fetch call details." \in o.msgs
                       /\ ~RanPipeline(s)
               /\ (r.status = "ok" /\ r.json = <<>> /\ r.text = <<>>)
                    => /\ o.details = <<>>
                       /\ "Could not parse API response as JSON." \in o.msgs
                       /\ ~RanPipeline(s)

\* a fetch whose body did not parse ended with the log displayed
C9_Witness ==
    \E s \in Sessions :
        /\ Idle(s)
        /\ out[s].kind = "fetch"
        /\ out[s].resp[1].status = "ok"
        /\ out[s].resp[1].json = <<>> /\ out[s].resp[1].text = <<>>
        /\ out[s].shown # <<>>

\* runs of app_main
DashboardRuns == {"logout", "start", "fetch", "view"}

\* C10: a session starts without a user, gets one only by a login with a
\* non-empty email that ends with @gmail.com, and loses it by logout; the
\* user is always unset or ends with the suffix, and every dashboard run,
\* hence every write of the log, is made by a session with a user.
C10_SessionGate ==
    \A s \in Sessions :
        /\ user[s] = <<>> \/ endswith(user[s], GmailSuffix)
        /\ out[s].kind = "none" => user[s] = <<>>
        /\ out[s].kind = "login"
             => /\ out[s].as = <<>>
                /\ user[s] = IF out[s].email[1] # <<>>
                                /\ endswith(out[s].email[1], GmailSuffix)
                               THEN out[s].email[1]
                               ELSE <<>>
        /\ out[s].kind = "logout" => user[s] = <<>>
        /\ out[s].kind \in DashboardRuns => out[s].as # <<>>
        /\ out[s].kind \in {"start", "fetch", "view"} => user[s] = out[s].as
        /\ ~Idle(s) => Authenticated(s)

\* a login with an email that holds the suffix but does not end with it was
\* refused
C10_Witness ==
    \E s \in Sessions :
        /\ out[s].kind = "login"
        /\ out[s].email = << <<"a">> \o GmailSuffix \o <<"x">> >>
        /\ "Please use a valid Gmail address" \in out[s].msgs
        /\ user[s] = <<>>

====
